---- MODULE Spec2Model ----
(***************************************************************************)
(* Minesweeper: the Grid engine (backend/grid.py), its Tile                 *)
(* (backend/tile.py) and the console session that drives it                 *)
(* (minesweeper_console.py), as a state machine.                            *)
(*                                                                          *)
(* A state is the Grid object (its dimensions, its two dicts, its recorded  *)
(* seed), the state of the process-wide `random` generator and the position *)
(* of the session (not constructed, playing, won, construction failed, a    *)
(* call raised).                                                            *)
(* Each action is one public call, run to completion; what a call returns   *)
(* is a function of the state it is made in and of its arguments.           *)
(***************************************************************************)
EXTENDS Integers, Sequences, FiniteSets, TLC

(* ------------------------------ bounds --------------------------------- *)

\* A session makes at most MaxCalls calls on its Grid after constructing it.
MaxCalls == 3

\* The rows and the columns the player names inside the grid, and the
\* coordinates the player names outside it: a row or a column below 0, a row
\* or a column beyond the last.
Clicks == {0, 1, 2}
Strays == {<<-1, 0>>, <<0, -1>>, <<5, 0>>, <<0, 5>>, <<-1, 5>>}
Turns == (Clicks \X Clicks) \cup Strays

\* Arguments handed to Grid(...): below, at and above each limit of
\* check_valid_grid_arguments.
Heights == {4, 5}
Widths == {4, 5}
MineCounts == {0, 1, 2, 25, 26}

\* seed=None is the empty tuple, seed=n the one-element tuple <<n>>.
None == <<>>
\* Explicit seed arguments; values os.urandom yields in generate_seed; states
\* random.seed(None) leaves the generator in.
Seeds == {0}
Urandom == {1}
Entropy == {0}
SeedArgs == {None} \cup {<<n>> : n \in Seeds}

(* ------------------------------- Tile ---------------------------------- *)

\* Tile.__init__ with its defaults.
Tile == [mine |-> FALSE, revealed |-> FALSE, flagged |-> FALSE]

place_mine(tile) == [tile EXCEPT !.mine = TRUE]

\* Tile.mark_as_revealed that sets nothing.
mark_as_revealed_without_effect(tile) == tile

mark_as_revealed(tile) == [tile EXCEPT !.revealed = TRUE]

\* Tile.place_flag that returns at a revealed tile, its flag not set.
tile_place_flag_unless_revealed(tile) ==
    IF tile.revealed THEN tile ELSE [tile EXCEPT !.flagged = TRUE]

\* The warning printed for a revealed tile changes nothing; the flag is set.
tile_place_flag(tile) == [tile EXCEPT !.flagged = TRUE]

tile_remove_flag(tile) == [tile EXCEPT !.flagged = FALSE]

(* ------------------------ the random generator -------------------------- *)

\* The `random` module is a deterministic generator: its outputs are a
\* function of its state, and every draw advances the state.  It is modelled
\* by a small full-period congruential generator whose (row, col) draws visit
\* every cell of a 5 x 5 grid from every state.
RngNext(g) == (8 * g + 22) % 49

\* random.seed(a) for an integer a.
RngSeed(a) == a % 49

\* random.randint(lo, hi): the value drawn and the generator's next state.
randint(g, lo, hi) ==
    LET g2 == RngNext(g)
    IN  [value |-> lo + (g2 % (hi - lo + 1)), rng |-> g2]

(* ------------------------------- Grid ---------------------------------- *)

ROTATIONS == << <<-1, -1>>, <<-1, 0>>, <<-1, 1>>,
                << 0, -1>>,            << 0, 1>>,
                << 1, -1>>, << 1, 0>>, << 1, 1>> >>

\* check_valid_grid_arguments with ">=" for ">" in its last test: a grid
\* filled with mines is turned down.
check_valid_grid_arguments_rejecting_full(h, w, mc) ==
    IF h < 5 \/ w < 5
    THEN "Invalid grid size - too small"
    ELSE IF mc < 1
    THEN "Invalid grid mine count - at least 1 mine required"
    ELSE IF mc >= h * w
    THEN "Invalid grid mine count - can't have more tiles than grid size!"
    ELSE ""

\* "" when the arguments are valid, else the message of the exception raised.
check_valid_grid_arguments(h, w, mc) ==
    IF h < 5 \/ w < 5
    THEN "Invalid grid size - too small"
    ELSE IF mc < 1
    THEN "Invalid grid mine count - at least 1 mine required"
    ELSE IF mc > h * w
    THEN "Invalid grid mine count - can't have more tiles than grid size!"
    ELSE ""

\* The keys _init_grids creates: range(height) x range(width).
Coords(h, w) == (0 .. h - 1) \X (0 .. w - 1)

init_tile_grid(h, w) == [p \in Coords(h, w) |-> Tile]

init_mine_count_grid(h, w) == [p \in Coords(h, w) |-> 0]

generate_rnd_position(g, h, w) ==
    LET a == randint(g, 0, h - 1)
        b == randint(a.rng, 0, w - 1)
    IN  [pos |-> <<a.value, b.value>>, rng |-> b.rng]

\* _place_random_mines without the test of tile.is_mine(): every draw counts.
RECURSIVE place_random_mines_no_redraw(_, _, _, _, _)
place_random_mines_no_redraw(tiles, g, h, w, k) ==
    IF k = 0
    THEN [tiles |-> tiles, rng |-> g]
    ELSE LET d == generate_rnd_position(g, h, w)
         IN  place_random_mines_no_redraw(
                 [tiles EXCEPT ![d.pos] = place_mine(@)], d.rng, h, w, k - 1)

\* The two nested loops of _place_random_mines: k mines are still to place;
\* a draw that lands on a mine is thrown away and drawn again.
RECURSIVE place_random_mines(_, _, _, _, _)
place_random_mines(tiles, g, h, w, k) ==
    IF k = 0
    THEN [tiles |-> tiles, rng |-> g]
    ELSE LET d == generate_rnd_position(g, h, w)
         IN  IF ~tiles[d.pos].mine
             THEN place_random_mines(
                      [tiles EXCEPT ![d.pos] = place_mine(@)], d.rng, h, w, k - 1)
             ELSE place_random_mines(tiles, d.rng, h, w, k)

\* _find_surrounding_mine_count over storage where an index of -1 names the
\* last row or column instead of raising.
find_surrounding_mine_count_wrapping(tiles, row, col) ==
    LET h == Cardinality({p \in DOMAIN tiles : p[2] = 0})
        w == Cardinality({p \in DOMAIN tiles : p[1] = 0})
    IN  Cardinality({i \in 1 .. Len(ROTATIONS) :
            LET r == row + ROTATIONS[i][1]
                c == col + ROTATIONS[i][2]
            IN  r < h /\ c < w /\ tiles[<<r % h, c % w>>].mine})

\* A lookup outside the dict raises KeyError, which the loop swallows.
find_surrounding_mine_count(tiles, row, col) ==
    Cardinality({i \in 1 .. Len(ROTATIONS) :
        LET location == <<row + ROTATIONS[i][1], col + ROTATIONS[i][2]>>
        IN  location \in DOMAIN tiles /\ tiles[location].mine})

generate_indicators(tiles, counts) ==
    [p \in DOMAIN counts |->
        IF ~tiles[p].mine
        THEN find_surrounding_mine_count(tiles, p[1], p[2])
        ELSE counts[p]]

\* _set_up_grid: _init_grids, _place_random_mines, _generate_indicators.
set_up_grid(h, w, mc, g) ==
    LET placed == place_random_mines(init_tile_grid(h, w), g, h, w, mc)
    IN  [tiles  |-> placed.tiles,
         counts |-> generate_indicators(placed.tiles, init_mine_count_grid(h, w)),
         rng    |-> placed.rng]

is_tile_a_indicator(counts, location) == counts[location] > 0

is_tile_empty(tiles, counts, location) ==
    ~tiles[location].mine /\ ~is_tile_a_indicator(counts, location)

InList(x, list) == \E i \in 1 .. Len(list) : list[i] = x

\* rotate_step without the two tests of is_flagged().
rotate_step_ignoring_flags(st, counts, curr, rel) ==
    LET location == <<curr[1] + rel[1], curr[2] + rel[2]>>
    IN  IF location \notin DOMAIN st.tiles
        THEN st
        ELSE IF /\ is_tile_empty(st.tiles, counts, location)
                /\ ~st.tiles[location].revealed
        THEN IF ~InList(location, st.to_check)
             THEN [st EXCEPT !.tiles[location] = mark_as_revealed(@),
                             !.to_check = Append(@, location)]
             ELSE st
        ELSE IF /\ is_tile_a_indicator(counts, location)
                /\ ~st.tiles[location].revealed
        THEN IF ~InList(location, st.to_not_check)
             THEN [st EXCEPT !.tiles[location] = mark_as_revealed(@),
                             !.to_not_check = Append(@, location)]
             ELSE st
        ELSE st

\* One pass of the body of rotate_algorithm's for loop, for one direction.
\* st is [tiles, to_check, to_not_check].
rotate_step(st, counts, curr, rel) ==
    LET location == <<curr[1] + rel[1], curr[2] + rel[2]>>
    IN  IF location \notin DOMAIN st.tiles
        THEN st
        ELSE IF /\ is_tile_empty(st.tiles, counts, location)
                /\ ~st.tiles[location].revealed
                /\ ~st.tiles[location].flagged
        THEN IF ~InList(location, st.to_check)
             THEN [st EXCEPT !.tiles[location] = mark_as_revealed(@),
                             !.to_check = Append(@, location)]
             ELSE st
        ELSE IF /\ is_tile_a_indicator(counts, location)
                /\ ~st.tiles[location].revealed
                /\ ~st.tiles[location].flagged
        THEN IF ~InList(location, st.to_not_check)
             THEN [st EXCEPT !.tiles[location] = mark_as_revealed(@),
                             !.to_not_check = Append(@, location)]
             ELSE st
        ELSE st

\* rotate_algorithm that stops one direction short: (1, 1) is never looked at.
RECURSIVE rotate_algorithm_one_short(_, _, _, _)
rotate_algorithm_one_short(st, counts, curr, i) ==
    IF i > Len(ROTATIONS) - 1
    THEN st
    ELSE rotate_algorithm_one_short(rotate_step(st, counts, curr, ROTATIONS[i]),
                                    counts, curr, i + 1)

\* rotate_algorithm(curr_r, curr_c): the directions from the i-th on.
RECURSIVE rotate_algorithm(_, _, _, _)
rotate_algorithm(st, counts, curr, i) ==
    IF i > Len(ROTATIONS)
    THEN st
    ELSE rotate_algorithm(rotate_step(st, counts, curr, ROTATIONS[i]),
                          counts, curr, i + 1)

\* The walk over a copy of to_check taken before the loop: what the loop
\* appends is never expanded.
check_loop_over_snapshot(st, counts, i) ==
    rotate_algorithm(st, counts, st.to_check[i], 1)

\* "for location in to_check": the list grows while it is walked, and the
\* walk covers what was appended.
RECURSIVE check_loop(_, _, _)
check_loop(st, counts, i) ==
    IF i > Len(st.to_check)
    THEN st
    ELSE check_loop(rotate_algorithm(st, counts, st.to_check[i], 1), counts, i + 1)

\* open_tile with "or curr_tile.is_revealed()" left out of its early return.
grid_open_tile_no_revealed_test(tiles, counts, row, col) ==
    LET to_check == << <<row, col>> >>
        curr_tile == tiles[<<row, col>>]
    IN  IF curr_tile.mine
        THEN [tiles |-> tiles, ret |-> to_check]
        ELSE LET st == check_loop(
                     [tiles |-> [tiles EXCEPT ![<<row, col>>] = mark_as_revealed(@)],
                      to_check |-> to_check,
                      to_not_check |-> <<>>],
                     counts, 1)
             IN  [tiles |-> st.tiles, ret |-> st.to_check \o st.to_not_check]

\* open_tile that returns to_check alone.
grid_open_tile_without_boundary(tiles, counts, row, col) ==
    LET to_check == << <<row, col>> >>
        curr_tile == tiles[<<row, col>>]
    IN  IF curr_tile.mine \/ curr_tile.revealed
        THEN [tiles |-> tiles, ret |-> to_check]
        ELSE LET st == check_loop(
                     [tiles |-> [tiles EXCEPT ![<<row, col>>] = mark_as_revealed(@)],
                      to_check |-> to_check,
                      to_not_check |-> <<>>],
                     counts, 1)
             IN  [tiles |-> st.tiles, ret |-> st.to_check]

\* open_tile with "curr_tile.is_mine() or" left out of its early return.
grid_open_tile_no_mine_test(tiles, counts, row, col) ==
    LET to_check == << <<row, col>> >>
        curr_tile == tiles[<<row, col>>]
    IN  IF curr_tile.revealed
        THEN [tiles |-> tiles, ret |-> to_check]
        ELSE LET st == check_loop(
                     [tiles |-> [tiles EXCEPT ![<<row, col>>] = mark_as_revealed(@)],
                      to_check |-> to_check,
                      to_not_check |-> <<>>],
                     counts, 1)
             IN  [tiles |-> st.tiles, ret |-> st.to_check \o st.to_not_check]

\* Grid.open_tile: the tiles after the call and the list it returns.
grid_open_tile(tiles, counts, row, col) ==
    LET to_check == << <<row, col>> >>
        curr_tile == tiles[<<row, col>>]
    IN  IF curr_tile.mine \/ curr_tile.revealed
        THEN [tiles |-> tiles, ret |-> to_check]
        ELSE LET st == check_loop(
                     [tiles |-> [tiles EXCEPT ![<<row, col>>] = mark_as_revealed(@)],
                      to_check |-> to_check,
                      to_not_check |-> <<>>],
                     counts, 1)
             IN  [tiles |-> st.tiles, ret |-> st.to_check \o st.to_not_check]

\* check_win with "and tile.is_mine()" left out of its first alternative.
check_win_any_flag(tiles) ==
    \A p \in DOMAIN tiles :
        \/ tiles[p].flagged
        \/ (tiles[p].revealed /\ ~tiles[p].mine)

\* Grid.check_win: all(...) over the values of the tile dict.
check_win(tiles) ==
    \A p \in DOMAIN tiles :
        \/ (tiles[p].flagged /\ tiles[p].mine)
        \/ (tiles[p].revealed /\ ~tiles[p].mine)

(* ------------------------------ state ---------------------------------- *)

VARIABLES
    pc,               \* "new", "playing", "won", "failed" (Grid(...) raised)
                      \* or "raised" (a call on the Grid raised)
    error,            \* the exception the session ended with, or ""
    grid_height,      \* Grid._grid_height
    grid_width,       \* Grid._grid_width
    mine_count,       \* Grid._mine_count
    tile_grid,        \* Grid._tile_grid: (row, col) -> Tile
    mine_count_grid,  \* Grid._mine_count_grid: (row, col) -> int
    seed,             \* Grid.seed
    rng,              \* the state of the process-wide random generator
    mine_clicked,     \* open_tile was called on a mine since the last set-up
    calls             \* calls made on the Grid since its construction

vars == <<pc, error, grid_height, grid_width, mine_count, tile_grid,
          mine_count_grid, seed, rng, mine_clicked, calls>>

\* The process starts with no Grid and a generator seeded from the system.
Init ==
    /\ pc = "new"
    /\ error = ""
    /\ grid_height = 0
    /\ grid_width = 0
    /\ mine_count = 0
    /\ tile_grid = <<>>
    /\ mine_count_grid = <<>>
    /\ seed = None
    /\ rng \in Entropy
    /\ mine_clicked = FALSE
    /\ calls = 0

\* play_game's test after each turn: the loop ends at the first win.
AfterTurn(tiles) == IF check_win(tiles) THEN "won" ELSE "playing"

\* Grid.__init__(h, w, mc, seed=sd), as MinesweeperConsole.__init__ calls it.
\* u is what urandom gives generate_seed, e the entropy random.seed(None) takes.
GridInit(h, w, mc, sd, u, e) ==
    /\ pc = "new"
    /\ LET msg == check_valid_grid_arguments(h, w, mc)
       IN  IF msg # ""
           THEN /\ pc' = "failed"
                /\ error' = msg
                /\ UNCHANGED <<grid_height, grid_width, mine_count, tile_grid,
                               mine_count_grid, seed, rng>>
           ELSE LET g == IF sd = None THEN e ELSE RngSeed(sd[1])
                    s == set_up_grid(h, w, mc, g)
                IN  /\ pc' = "playing"
                    /\ error' = ""
                    /\ grid_height' = h
                    /\ grid_width' = w
                    /\ mine_count' = mc
                    /\ seed' = IF sd # None THEN sd[1] ELSE u
                    /\ tile_grid' = s.tiles
                    /\ mine_count_grid' = s.counts
                    /\ rng' = s.rng
    /\ UNCHANGED <<mine_clicked, calls>>

Flagged(tiles) == {p \in DOMAIN tiles : tiles[p].flagged}

\* dict[key] raises KeyError: the key is not in the dict.
KeyError(dict, key) == key \notin DOMAIN dict

\* The turn's lookup in _tile_grid raised: nothing catches the KeyError, the
\* session ends with it and the Grid is as it was.
Raise ==
    /\ pc' = "raised"
    /\ error' = "KeyError"
    /\ UNCHANGED <<tile_grid, mine_clicked>>

\* open_tile where a coordinate outside the grid is passed over in silence,
\* as the neighbour scan passes over one.
open_tile_absorbing_strays(row, col) ==
    /\ pc = "playing"
    /\ calls < MaxCalls
    /\ calls' = calls + 1
    /\ IF KeyError(tile_grid, <<row, col>>)
       THEN UNCHANGED <<pc, error, tile_grid, mine_clicked>>
       ELSE LET res == grid_open_tile(tile_grid, mine_count_grid, row, col)
            IN  /\ tile_grid' = res.tiles
                /\ pc' = AfterTurn(res.tiles)
                /\ mine_clicked' = (mine_clicked \/ tile_grid[<<row, col>>].mine)
                /\ error' = error
    /\ UNCHANGED <<grid_height, grid_width, mine_count, mine_count_grid,
                   seed, rng>>

\* A turn "row col": Grid.open_tile(row, col), then check_win.
open_tile(row, col) ==
    /\ pc = "playing"
    /\ calls < MaxCalls
    /\ calls' = calls + 1
    /\ IF KeyError(tile_grid, <<row, col>>)
       THEN Raise
       ELSE LET res == grid_open_tile(tile_grid, mine_count_grid, row, col)
            IN  /\ tile_grid' = res.tiles
                /\ pc' = AfterTurn(res.tiles)
                /\ mine_clicked' = (mine_clicked \/ tile_grid[<<row, col>>].mine)
                /\ error' = error
    /\ UNCHANGED <<grid_height, grid_width, mine_count, mine_count_grid,
                   seed, rng>>

\* A turn "row col flag": get_tile(row, col).place_flag(), then check_win.
place_flag(row, col) ==
    /\ pc = "playing"
    /\ calls < MaxCalls
    /\ calls' = calls + 1
    /\ IF KeyError(tile_grid, <<row, col>>)
       THEN Raise
       ELSE /\ tile_grid' = [tile_grid EXCEPT ![<<row, col>>] = tile_place_flag(@)]
            /\ pc' = AfterTurn(tile_grid')
            /\ UNCHANGED <<error, mine_clicked>>
    /\ UNCHANGED <<grid_height, grid_width, mine_count, mine_count_grid,
                   seed, rng>>

\* get_tile(row, col).remove_flag().
remove_flag(row, col) ==
    /\ pc = "playing"
    /\ calls < MaxCalls
    /\ calls' = calls + 1
    /\ IF KeyError(tile_grid, <<row, col>>)
       THEN Raise
       ELSE /\ tile_grid' = [tile_grid EXCEPT ![<<row, col>>] = tile_remove_flag(@)]
            /\ UNCHANGED <<pc, error, mine_clicked>>
    /\ UNCHANGED <<grid_height, grid_width, mine_count, mine_count_grid,
                   seed, rng>>

\* Grid.restart_grid(): both dicts are replaced and set up again; the
\* generator is not seeded again.
restart_grid ==
    /\ pc = "playing"
    /\ calls < MaxCalls
    /\ calls' = calls + 1
    /\ LET s == set_up_grid(grid_height, grid_width, mine_count, rng)
       IN  /\ tile_grid' = s.tiles
           /\ mine_count_grid' = s.counts
           /\ rng' = s.rng
    /\ mine_clicked' = FALSE
    /\ UNCHANGED <<pc, error, grid_height, grid_width, mine_count, seed>>

Construct ==
    \E h \in Heights, w \in Widths, mc \in MineCounts, sd \in SeedArgs,
       u \in Urandom, e \in Entropy :
        GridInit(h, w, mc, sd, u, e)

Open == \E t \in Turns : open_tile(t[1], t[2])

PlaceFlag == \E t \in Turns : place_flag(t[1], t[2])

RemoveFlag == \E t \in Turns : remove_flag(t[1], t[2])

Next == Construct \/ Open \/ PlaceFlag \/ RemoveFlag \/ restart_grid

Spec == Init /\ [][Next]_vars

\* The sessions in which no flag is ever placed.
NextNoFlags == Construct \/ Open \/ RemoveFlag \/ restart_grid

SpecNoFlags == Init /\ [][NextNoFlags]_vars

(* ------------------------------ claims --------------------------------- *)

\* A Grid exists: construction succeeded.
Constructed == pc \in {"playing", "won"}

Mines == {p \in DOMAIN tile_grid : tile_grid[p].mine}

Revealed == {p \in DOMAIN tile_grid : tile_grid[p].revealed}

\* The tile at p passes the win test.
Settled(p) ==
    \/ (tile_grid[p].flagged /\ tile_grid[p].mine)
    \/ (tile_grid[p].revealed /\ ~tile_grid[p].mine)

\* C1: in every reachable state of a constructed grid, check_win() is true
\* exactly when every mine tile is flagged and every tile without a mine is
\* revealed, and the session has reported a win exactly in those states.
C1_CheckWinIffMinesFlaggedSafeRevealed ==
    Constructed =>
        /\ check_win(tile_grid) <=>
              /\ \A p \in DOMAIN tile_grid : tile_grid[p].mine => tile_grid[p].flagged
              /\ \A p \in DOMAIN tile_grid : ~tile_grid[p].mine => tile_grid[p].revealed
        /\ pc = "won" <=> check_win(tile_grid)

\* C1 witness: a won game: the mine is flagged and the 24 other tiles are
\* revealed.
C1_Witness ==
    /\ pc = "won"
    /\ mine_count = 1
    /\ Cardinality(Revealed) = 24
    /\ \A p \in Mines : tile_grid[p].flagged

\* C2 as stated: whenever some tile without a mine is flagged, check_win() is
\* false.
C2_FlaggedSafeTileFailsWin ==
    Constructed =>
        ((\E p \in DOMAIN tile_grid : ~tile_grid[p].mine /\ tile_grid[p].flagged)
            => ~check_win(tile_grid))

\* C2 amended: whenever some tile without a mine is flagged and not revealed,
\* check_win() is false.
C2_FlaggedUnrevealedSafeTileFailsWin ==
    Constructed =>
        ((\E p \in DOMAIN tile_grid :
              ~tile_grid[p].mine /\ tile_grid[p].flagged /\ ~tile_grid[p].revealed)
            => ~check_win(tile_grid))

\* C2 witness: one flagged, unrevealed tile without a mine stands between the
\* player and a win: every other tile passes the win test.
C2_Witness ==
    /\ pc = "playing"
    /\ \E p \in DOMAIN tile_grid :
          /\ ~tile_grid[p].mine /\ tile_grid[p].flagged /\ ~tile_grid[p].revealed
          /\ \A q \in DOMAIN tile_grid \ {p} : Settled(q)

\* C3: once open_tile has been called on a mine tile, the session never
\* reports a win before the grid is set up again.
C3_NoWinAfterMineOpened == mine_clicked => pc # "won"

\* C6: no tile is both a mine and revealed.
C6_NoMineRevealed == \A p \in DOMAIN tile_grid : ~(tile_grid[p].mine /\ tile_grid[p].revealed)

\* C6 witness: open_tile has been called on a mine and on a tile without one:
\* tiles are revealed, and the mine is not.
C6_Witness ==
    /\ mine_clicked
    /\ Revealed # {}
    /\ Mines # {}
    /\ Mines \cap Revealed = {}

\* C10: for every valid (height, width, mine count) set-up completes with
\* exactly that many mines; after set-up, also after restart_grid, exactly
\* mine_count tiles have a mine, and each dict has one entry per coordinate of
\* [0, height) x [0, width) and no other key.
C10_SetUpPlacesExactlyMineCount ==
    /\ pc = "new" =>
          \A h \in Heights, w \in Widths, mc \in MineCounts,
             g \in Entropy \cup {RngSeed(n) : n \in Seeds} :
              check_valid_grid_arguments(h, w, mc) = "" =>
                  LET s == set_up_grid(h, w, mc, g)
                  IN  /\ Cardinality({p \in DOMAIN s.tiles : s.tiles[p].mine}) = mc
                      /\ DOMAIN s.tiles = (0 .. h - 1) \X (0 .. w - 1)
                      /\ DOMAIN s.counts = (0 .. h - 1) \X (0 .. w - 1)
    /\ Constructed =>
          /\ Cardinality(Mines) = mine_count
          /\ DOMAIN tile_grid = (0 .. grid_height - 1) \X (0 .. grid_width - 1)
          /\ DOMAIN mine_count_grid = (0 .. grid_height - 1) \X (0 .. grid_width - 1)

\* C10 witness: a grid of 25 mines, which costs the placement loop redraws,
\* set up a second time by restart_grid.
C10_Witness ==
    /\ pc = "playing"
    /\ mine_count = 25
    /\ Cardinality(Mines) = 25
    /\ calls = 1
    /\ \A p \in DOMAIN tile_grid : ~tile_grid[p].flagged

(* ----------------- claims about one open_tile call --------------------- *)
(* What open_tile(row, col) would do and return is a function of the state  *)
(* it is called in: each claim below speaks of every call that can be made  *)
(* in every reachable state.                                                *)

\* The tiles after open_tile(c[1], c[2]) is called now, and what it returns.
OpenResult(c) == grid_open_tile(tile_grid, mine_count_grid, c[1], c[2])

Elements(list) == {list[i] : i \in 1 .. Len(list)}

\* The tiles a result res reveals that are not revealed now.
NewlyRevealed(res) ==
    {q \in DOMAIN tile_grid : ~tile_grid[q].revealed /\ res.tiles[q].revealed}

\* The in-range 8-neighbours of p.
Neighbours(p) ==
    {q \in DOMAIN tile_grid :
        /\ q # p
        /\ q[1] - p[1] \in {-1, 0, 1}
        /\ q[2] - p[2] \in {-1, 0, 1}}

IsEmpty(p) == ~tile_grid[p].mine /\ mine_count_grid[p] = 0

IsIndicator(p) == ~tile_grid[p].mine /\ mine_count_grid[p] > 0

\* C4 as stated: a call of open_tile, whichever tile is clicked, leaves the
\* revealed bit of every tile that is flagged when it starts as it was.
C4_OpenNeverRevealsFlagged ==
    \A c \in DOMAIN tile_grid :
        LET res == OpenResult(c)
        IN  \A q \in DOMAIN tile_grid :
                tile_grid[q].flagged => res.tiles[q].revealed = tile_grid[q].revealed

\* C4 amended: a call of open_tile leaves the revealed bit of every tile other
\* than the clicked one that is flagged when it starts as it was.
C4_OpenNeverRevealsFlaggedNeighbour ==
    \A c \in DOMAIN tile_grid :
        LET res == OpenResult(c)
        IN  \A q \in DOMAIN tile_grid \ {c} :
                tile_grid[q].flagged => res.tiles[q].revealed = tile_grid[q].revealed

\* C4 witness: a fill has gone round a flagged tile: the tile has no mine, is
\* still flagged and unrevealed, and an empty tile next to it is revealed.
C4_Witness ==
    \E q \in DOMAIN tile_grid :
        /\ tile_grid[q].flagged /\ ~tile_grid[q].revealed /\ ~tile_grid[q].mine
        /\ \E e \in Neighbours(q) : IsEmpty(e) /\ tile_grid[e].revealed

\* C5: in every call of open_tile, each tile the call reveals, other than the
\* clicked tile, is an 8-neighbour of an empty tile that the same call reveals.
C5_OnlyEmptyTilesAreExpanded ==
    \A c \in DOMAIN tile_grid :
        LET new == NewlyRevealed(OpenResult(c))
        IN  \A q \in new \ {c} :
                \E e \in new : IsEmpty(e) /\ q \in Neighbours(e)

\* In every state, open_tile on a tile that has a mine or is revealed would
\* return exactly [(row, col)] and leave every tile as it is.
ShortCircuitResult ==
    \A c \in DOMAIN tile_grid :
        (tile_grid[c].mine \/ tile_grid[c].revealed) =>
            LET res == OpenResult(c)
            IN  /\ res.ret = <<c>>
                /\ res.tiles = tile_grid

\* A call on the grid that leaves every tile as it was leaves every mine
\* count as it was.
IdleCallKeepsMineCounts ==
    (Constructed /\ calls' = calls + 1 /\ tile_grid' = tile_grid)
        => mine_count_grid' = mine_count_grid

\* C7: open_tile on a tile that has a mine or is revealed returns exactly
\* [(row, col)] and changes no tile's mine, revealed or flagged bit and no mine
\* count; so does a second call on the coordinate of a first.
C7_OpenShortCircuits == []ShortCircuitResult /\ [][IdleCallKeepsMineCounts]_vars

\* C7 witness: a revealed tile without a mine has a neighbour without a mine
\* that is neither revealed nor flagged: expanding the revealed tile again
\* would reveal it.
C7_Witness ==
    \E c \in DOMAIN tile_grid :
        /\ tile_grid[c].revealed
        /\ \E q \in Neighbours(c) :
              ~tile_grid[q].mine /\ ~tile_grid[q].revealed /\ ~tile_grid[q].flagged

\* In every state, open_tile on an unrevealed tile without a mine would return,
\* without repetition, exactly the tiles whose revealed bit it turns from false
\* to true, and change no other revealed bit, no flagged bit and no mine bit.
ReturnIsNewlyRevealed ==
    \A c \in DOMAIN tile_grid :
        (~tile_grid[c].mine /\ ~tile_grid[c].revealed) =>
            LET res == OpenResult(c)
            IN  /\ DOMAIN res.tiles = DOMAIN tile_grid
                /\ Elements(res.ret) = NewlyRevealed(res)
                /\ \A q \in DOMAIN tile_grid \ Elements(res.ret) :
                      res.tiles[q].revealed = tile_grid[q].revealed
                /\ \A i, j \in 1 .. Len(res.ret) : i # j => res.ret[i] # res.ret[j]
                /\ \A q \in DOMAIN tile_grid :
                      /\ res.tiles[q].flagged = tile_grid[q].flagged
                      /\ res.tiles[q].mine = tile_grid[q].mine

\* A step that reveals a tile (a call of open_tile on an unrevealed tile
\* without a mine) leaves every mine count as it was.
RevealKeepsMineCounts ==
    (\E q \in DOMAIN tile_grid : ~tile_grid[q].revealed /\ tile_grid'[q].revealed)
        => mine_count_grid' = mine_count_grid

\* C8: the list open_tile returns for an unrevealed tile without a mine is
\* exactly the set of tiles whose revealed bit the call turned from false to
\* true, no coordinate twice; the call changes no other revealed bit, no
\* flagged bit, no mine bit and no mine count.
C8_ReturnsExactlyTheNewlyRevealed ==
    []ReturnIsNewlyRevealed /\ [][RevealKeepsMineCounts]_vars

\* C8 witness: a call has revealed empty tiles and indicator tiles while a
\* flag stood on the grid, and tiles without a mine are still unrevealed.
C8_Witness ==
    /\ \E p \in Revealed : IsEmpty(p)
    /\ \E p \in Revealed : IsIndicator(p)
    /\ \E p \in DOMAIN tile_grid : tile_grid[p].flagged /\ tile_grid[p].mine
    /\ \E p \in DOMAIN tile_grid : ~tile_grid[p].mine /\ ~tile_grid[p].revealed

\* p and q are 8-adjacent.
Adjacent(p, q) ==
    /\ p # q
    /\ p[1] - q[1] \in {-1, 0, 1}
    /\ p[2] - q[2] \in {-1, 0, 1}

\* The empty tiles a fill may pass through: unrevealed and unflagged.
Passable == {q \in DOMAIN tile_grid :
                IsEmpty(q) /\ ~tile_grid[q].revealed /\ ~tile_grid[q].flagged}

\* The tiles of `passable` reachable from `frontier` by 8-adjacent steps
\* through `passable`, added to `done`.
RECURSIVE Closure(_, _, _)
Closure(done, frontier, passable) ==
    IF frontier = {}
    THEN done
    ELSE LET next == {q \in passable \ done : \E e \in frontier : Adjacent(e, q)}
         IN  Closure(done \cup next, next, passable)

\* The reference: c, the passable tiles reachable from c through passable
\* tiles, and the unrevealed, unflagged indicator tiles next to any of these.
Reference(c, passable) ==
    LET reached == Closure({c}, {c}, passable)
    IN  reached \cup
        {q \in DOMAIN tile_grid :
            /\ IsIndicator(q) /\ ~tile_grid[q].revealed /\ ~tile_grid[q].flagged
            /\ \E e \in reached : Adjacent(e, q)}

\* C9: open_tile on an unrevealed empty tile c reveals exactly the reference
\* set of c; on a fresh 5 x 5 grid whose one mine is at (2, 2),
\* open_tile(0, 0) reveals the 24 other tiles and not (2, 2).
C9_FillMatchesReachability ==
    LET passable == Passable
    IN  /\ \A c \in DOMAIN tile_grid :
              (IsEmpty(c) /\ ~tile_grid[c].revealed) =>
                  LET res == OpenResult(c)
                      ref == Reference(c, passable)
                  IN  /\ NewlyRevealed(res) = ref
                      /\ Elements(res.ret) = ref
        /\ ( /\ Constructed
             /\ grid_height = 5 /\ grid_width = 5
             /\ Mines = {<<2, 2>>}
             /\ Revealed = {}
             /\ \A p \in DOMAIN tile_grid : ~tile_grid[p].flagged )
           => NewlyRevealed(OpenResult(<<0, 0>>)) = DOMAIN tile_grid \ {<<2, 2>>}

\* C9 witness: the 5 x 5 grid whose one mine is at (2, 2), after one call:
\* the 24 other tiles are revealed.
C9_Witness ==
    /\ Mines = {<<2, 2>>}
    /\ calls = 1
    /\ Revealed = DOMAIN tile_grid \ {<<2, 2>>}

(* ------------------------ claims about set-up --------------------------- *)

\* C11: after set-up, also after restart_grid, the count stored for a tile
\* without a mine is the number of tiles of the grid 8-adjacent to it that
\* have a mine (a coordinate outside the grid, row or column -1 included,
\* counts for nothing and nothing wraps round); the count stored for a mine
\* tile is 0.
C11_CountsMatchNeighbouringMines ==
    Constructed =>
        \A p \in DOMAIN tile_grid :
            mine_count_grid[p] =
                IF tile_grid[p].mine
                THEN 0
                ELSE Cardinality({q \in DOMAIN tile_grid :
                                     Adjacent(p, q) /\ tile_grid[q].mine})

\* C11 witness: a grid with a mine on its first row or first column, where a
\* lookup at -1 happens next to a mine, and tiles without a mine around it.
C11_Witness ==
    /\ Constructed
    /\ mine_count < 25
    /\ \E m \in Mines :
          /\ m[1] = 0 \/ m[2] = 0
          /\ \E p \in DOMAIN tile_grid :
                Adjacent(m, p) /\ ~tile_grid[p].mine /\ mine_count_grid[p] > 0

\* What Grid(h, w, mc) must do on this step, whatever seed it is given.
ValidatedConstruction(h, w, mc) ==
    LET invalid == h < 5 \/ w < 5 \/ mc < 1 \/ mc > h * w
    IN  /\ pc' = "failed" <=> invalid
        /\ invalid =>
              /\ error' = IF h < 5 \/ w < 5
                           THEN "Invalid grid size - too small"
                           ELSE IF mc < 1
                           THEN "Invalid grid mine count - at least 1 mine required"
                           ELSE "Invalid grid mine count - can't have more tiles than grid size!"
              /\ tile_grid' = <<>>
              /\ mine_count_grid' = <<>>
              /\ rng' = rng
        /\ ~invalid =>
              /\ pc' = "playing"
              /\ error' = ""
              /\ grid_height' = h /\ grid_width' = w /\ mine_count' = mc
              /\ DOMAIN tile_grid' = (0 .. h - 1) \X (0 .. w - 1)

\* C12: Grid(height, width, mineCount) raises, with no tile created and the
\* random generator left as it was, exactly when height < 5 or width < 5 or
\* mineCount < 1 or mineCount > height * width; the message names the
\* constraint broken, a grid too small before too few mines before too many
\* mines; otherwise construction succeeds, also when
\* mineCount = height * width.
C12_ConstructionValidatesFirst ==
    [][\A h \in Heights, w \in Widths, mc \in MineCounts, sd \in SeedArgs,
          u \in Urandom, e \in Entropy :
           GridInit(h, w, mc, sd, u, e) => ValidatedConstruction(h, w, mc)]_vars

\* C12 witness: Grid(5, 5, 26) has raised: too many mines, and no tile exists.
C12_Witness ==
    /\ pc = "failed"
    /\ error = "Invalid grid mine count - can't have more tiles than grid size!"
    /\ tile_grid = <<>>

\* C13: restart_grid on a grid constructed with an explicit seed (Seeds and
\* Urandom are disjoint, so the recorded seed tells) leaves the grid as it
\* was right after construction: the same mines and mine counts, every tile
\* unrevealed and unflagged.
C13_RestartRestoresConstructedGrid ==
    [][(restart_grid /\ seed \in Seeds) =>
           LET s == set_up_grid(grid_height, grid_width, mine_count, RngSeed(seed))
           IN  /\ tile_grid' = s.tiles
               /\ mine_count_grid' = s.counts]_vars

\* C14: the mines a grid has right after construction are the mines of a
\* grid constructed with the same height, width and mine count and with
\* seed = the seed recorded on it.
C14_RecordedSeedReproducesLayout ==
    (pc = "playing" /\ calls = 0) =>
        LET s == set_up_grid(grid_height, grid_width, mine_count, RngSeed(seed))
        IN  Mines = {p \in DOMAIN s.tiles : s.tiles[p].mine}

(* ---------------------- claims about flag calls ------------------------- *)

\* C15: place_flag on a revealed tile raises an exception; place_flag on an
\* unrevealed tile leaves is_flagged() true, and remove_flag leaves it false.
C15_PlaceFlagOnRevealedRaises ==
    [][\A p \in DOMAIN tile_grid :
           /\ (place_flag(p[1], p[2]) /\ tile_grid[p].revealed) => error' # ""
           /\ (place_flag(p[1], p[2]) /\ ~tile_grid[p].revealed) =>
                  (tile_grid'[p].flagged /\ error' = "")
           /\ remove_flag(p[1], p[2]) => ~tile_grid'[p].flagged]_vars

\* Every bit and count other than the flagged bit of p is left as it was.
OnlyFlagOfChanges(p) ==
    /\ DOMAIN tile_grid' = DOMAIN tile_grid
    /\ \A q \in DOMAIN tile_grid :
          /\ tile_grid'[q].mine = tile_grid[q].mine
          /\ tile_grid'[q].revealed = tile_grid[q].revealed
          /\ q # p => tile_grid'[q].flagged = tile_grid[q].flagged
    /\ mine_count_grid' = mine_count_grid

OutOfRange(row, col) ==
    \/ row < 0 \/ row >= grid_height
    \/ col < 0 \/ col >= grid_width

\* In every state of a constructed grid, get_tile and
\* get_surrounding_mine_count raise for every coordinate out of range.
StrayLookupRaises ==
    Constructed =>
        \A row \in -1 .. grid_height, col \in -1 .. grid_width :
            OutOfRange(row, col) =>
                /\ KeyError(tile_grid, <<row, col>>)
                /\ KeyError(mine_count_grid, <<row, col>>)

\* A call with a coordinate out of range ends in an error and leaves every
\* tile and every mine count as it was.
StrayCallRaises ==
    \A row \in -1 .. grid_height, col \in -1 .. grid_width :
        ( /\ OutOfRange(row, col)
          /\ open_tile(row, col) \/ place_flag(row, col) \/ remove_flag(row, col) )
        => /\ error' # ""
           /\ pc' = "raised"
           /\ tile_grid' = tile_grid
           /\ mine_count_grid' = mine_count_grid

\* C17: get_tile, get_surrounding_mine_count and open_tile called with a row
\* outside [0, height) or a column outside [0, width), negative values
\* included, fail with an error and leave every tile's mine, revealed and
\* flagged bit and every mine count unchanged.
C17_StrayCoordinatesAreRejected ==
    []StrayLookupRaises /\ [][StrayCallRaises]_vars

\* C17 witness: a call with a stray coordinate has raised on a grid where
\* tiles are revealed and a flag stands: they are all still there.
C17_Witness ==
    /\ pc = "raised"
    /\ error = "KeyError"
    /\ Revealed # {}
    /\ Flagged(tile_grid) # {}

(* ------------------- claims about the worklist -------------------------- *)

\* The lists to_check and to_not_check, and the tiles, when the loop of
\* open_tile(c[1], c[2]), called now on an unrevealed tile without a mine,
\* has ended.
Worklist(c) ==
    check_loop([tiles |-> [tile_grid EXCEPT ![c] = mark_as_revealed(@)],
                to_check |-> <<c>>,
                to_not_check |-> <<>>],
               mine_count_grid, 1)

\* Over the whole pass of a call made now no coordinate is put on to_check
\* or to_not_check twice, no mine is put on either, and the walk expands at
\* most as many entries as the grid has tiles without a mine.
WorklistIsBounded ==
    \A c \in DOMAIN tile_grid :
        (~tile_grid[c].mine /\ ~tile_grid[c].revealed) =>
            LET st == Worklist(c)
                all == st.to_check \o st.to_not_check
            IN  /\ \A i, j \in 1 .. Len(all) : i # j => all[i] # all[j]
                /\ Elements(all) \cap Mines = {}
                /\ Len(st.to_check) <= Cardinality(DOMAIN tile_grid \ Mines)

\* C18: every call of open_tile ends: although to_check grows while it is
\* walked, each coordinate is put on to_check or to_not_check at most once,
\* so in every reachable state of every grid the pass ends after expanding
\* at most (number of tiles without a mine) entries.
C18_OpenTileTerminates == []WorklistIsBounded

\* C18 witness: one call has revealed more than a tile and its eight
\* neighbours: entries appended during the walk were expanded in their turn.
C18_Witness ==
    /\ calls = 1
    /\ Cardinality(Revealed) > 9
    /\ Cardinality(Revealed) < 24

(* -------------------- claims about flagless play ----------------------- *)

\* C19: when no flag is ever placed, in every state reached by calls of
\* open_tile every revealed empty tile (no mine, count 0) has every tile of
\* the grid 8-adjacent to it revealed.
C19_RevealedEmptyTilesAreClosed ==
    \A p \in DOMAIN tile_grid :
        (tile_grid[p].revealed /\ IsEmpty(p)) =>
            \A q \in DOMAIN tile_grid : Adjacent(p, q) => tile_grid[q].revealed

\* C19 witness: after two calls of open_tile that revealed tiles, revealed
\* empty tiles exist and tiles without a mine are still unrevealed.
C19_Witness ==
    /\ calls = 2
    /\ \E p \in Revealed : IsEmpty(p)
    /\ \E p \in Revealed : IsIndicator(p) /\ \A q \in Revealed : ~Adjacent(p, q) \/ ~IsEmpty(q)
    /\ \E p \in DOMAIN tile_grid : ~tile_grid[p].mine /\ ~tile_grid[p].revealed

====
